---------------------------- MODULE Spec2Model ----------------------------
(***************************************************************************)
(* State-machine model of src/src/App.tsx: the App view container (view    *)
(* state, element filter, layout toggles), the AtomModel / Nucleus /       *)
(* Electron scene components and the per-frame electron animation.         *)
(*                                                                         *)
(* Text is modelled as a sequence of one-character strings, so that        *)
(* includes / toLowerCase / toString / parseFloat are computed and not     *)
(* assumed.  Angles are exact rationals counted in turns (1 turn = 2*pi).  *)
(***************************************************************************)
EXTENDS Integers, Sequences, FiniteSets, TLC

----------------------------------------------------------------------------
(* Bounds of the model *)

\* The render clock is counted in ticks of pi/TicksPerPi seconds.
TicksPerPi == 4
\* The render clock is followed up to MaxTime ticks after the canvas mounts.
MaxTime == 3
\* Longest search text typed in SpecFilter.
MaxLen == 2
\* Largest proton / neutron count given to a stand-alone Nucleus (SpecNucleus).
MaxParticles == 10
\* Most shells, and most electrons in a shell, of the atoms of SpecAtom.
MaxShells == 3
MaxCount == 3

----------------------------------------------------------------------------
(* Text primitives of the JavaScript runtime *)

Upper == <<"A","B","C","D","E","F","G","H","I","J","K","L","M",
           "N","O","P","Q","R","S","T","U","V","W","X","Y","Z">>
Lower == <<"a","b","c","d","e","f","g","h","i","j","k","l","m",
           "n","o","p","q","r","s","t","u","v","w","x","y","z">>
Digits == <<"0","1","2","3","4","5","6","7","8","9">>

\* String.prototype.toLowerCase on one character: A-Z map to a-z, every
\* other character (digits, Hebrew letters, punctuation) maps to itself.
LowerChar(c) ==
  IF \E i \in 1..Len(Upper) : Upper[i] = c
    THEN Lower[CHOOSE i \in 1..Len(Upper) : Upper[i] = c]
    ELSE c

ToLowerCase(s) == [i \in 1..Len(s) |-> LowerChar(s[i])]

\* String.prototype.includes: t occurs in s as a contiguous substring.
Includes(s, t) ==
  \E i \in 0..(Len(s) - Len(t)) : SubSeq(s, i + 1, i + Len(t)) = t

IsDigit(c) == \E d \in 1..10 : Digits[d] = c
DigitValue(c) == (CHOOSE d \in 1..10 : Digits[d] = c) - 1

\* Number.prototype.toString (radix 10) of a non-negative integer.
RECURSIVE NumberToString(_)
NumberToString(n) ==
  IF n < 10 THEN <<Digits[n + 1]>>
            ELSE Append(NumberToString(n \div 10), Digits[(n % 10) + 1])

\* Length of the run of decimal digits of s that starts at position i.
RECURSIVE DigitRun(_, _)
DigitRun(s, i) ==
  IF i <= Len(s) /\ IsDigit(s[i]) THEN 1 + DigitRun(s, i + 1) ELSE 0

RECURSIVE DigitsToNat(_)
DigitsToNat(s) ==
  IF s = <<>> THEN 0
  ELSE 10 * DigitsToNat(SubSeq(s, 1, Len(s) - 1)) + DigitValue(s[Len(s)])

RECURSIVE Pow10(_)
Pow10(k) == IF k = 0 THEN 1 ELSE 10 * Pow10(k - 1)

\* A JavaScript number: an exact rational num/den (den > 0), or IEEE
\* not-a-number, which absorbs arithmetic and fails every comparison.
Num(n) == [nan |-> FALSE, num |-> n, den |-> 1]
NaN == [nan |-> TRUE, num |-> 0, den |-> 1]

\* parseFloat: the longest prefix [sign] digits [. digits] read as a decimal
\* number; NaN when that prefix has no digit.  (Leading white space,
\* exponents and "Infinity" do not occur in the texts modelled.)
ParseFloat(s) ==
  LET signed  == Len(s) >= 1 /\ s[1] \in {"+", "-"}
      start   == IF signed THEN 2 ELSE 1
      nInt    == DigitRun(s, start)
      dotAt   == start + nInt
      hasDot  == dotAt <= Len(s) /\ s[dotAt] = "."
      nFrac   == IF hasDot THEN DigitRun(s, dotAt + 1) ELSE 0
      digs    == SubSeq(s, start, start + nInt - 1)
                   \o SubSeq(s, dotAt + 1, dotAt + nFrac)
      mag     == DigitsToNat(digs)
  IN  IF nInt + nFrac = 0 THEN NaN
      ELSE [nan |-> FALSE,
            num |-> IF signed /\ s[1] = "-" THEN 0 - mag ELSE mag,
            den |-> Pow10(nFrac)]

\* Math.round: the integer nearest to x, halves rounded up; NaN stays NaN.
MathRound(x) ==
  IF x.nan THEN NaN ELSE Num((2 * x.num + x.den) \div (2 * x.den))

\* Number arithmetic and comparison with NaN propagation.
NumSub(a, b) ==
  IF a.nan \/ b.nan THEN NaN
  ELSE [nan |-> FALSE, num |-> a.num * b.den - b.num * a.den, den |-> a.den * b.den]
NumAdd(a, b) ==
  IF a.nan \/ b.nan THEN NaN
  ELSE [nan |-> FALSE, num |-> a.num * b.den + b.num * a.den, den |-> a.den * b.den]
NumLess(a, b) ==
  IF a.nan \/ b.nan THEN FALSE ELSE a.num * b.den < b.num * a.den

----------------------------------------------------------------------------
(* Exact rational arithmetic, for angles, radii and speeds *)

RECURSIVE GCD(_, _)
GCD(a, b) == IF b = 0 THEN a ELSE GCD(b, a % b)

Abs(a) == IF a < 0 THEN 0 - a ELSE a

\* The rational n/d (d > 0) in lowest terms.
Rat(n, d) ==
  LET g == GCD(Abs(n), d) IN [num |-> n \div g, den |-> d \div g]

RatAdd(a, b) == Rat(a.num * b.den + b.num * a.den, a.den * b.den)
RatSub(a, b) == Rat(a.num * b.den - b.num * a.den, a.den * b.den)
RatMul(a, b) == Rat(a.num * b.num, a.den * b.den)
RatLess(a, b) == a.num * b.den < b.num * a.den
\* The fractional part of a, in [0, 1).
RatFrac(a) == Rat(a.num % a.den, a.den)

----------------------------------------------------------------------------
(* The element dataset (./data/elements, imported at App.tsx:12) *)

\* A sample of the dataset: lithium, aluminium, zinc and technetium, the
\* last with its mass written in parentheses as tables do for elements
\* without a stable isotope.  Hebrew letters are written as named tokens.
\* The shell lists are shortened to keep the scene small (they need not sum
\* to number), and the fields that only feed markup (category, phase,
\* summary, x, y) are left out.
elements ==
  << [number |-> 3, symbol |-> <<"L","i">>,
      name |-> <<"L","i","t","h","i","u","m">>,
      hebrewName |-> <<"lamed","yod","tav","yod","vav","mem">>,
      atomicMass |-> <<"6",".","9","4">>,
      shells |-> <<2, 1>>],
     [number |-> 13, symbol |-> <<"A","l">>,
      name |-> <<"A","l","u","m","i","n","i","u","m">>,
      hebrewName |-> <<"alef","lamed","vav","mem","yod","nun","yod","vav","mem">>,
      atomicMass |-> <<"2","6",".","9","8","2">>,
      shells |-> <<2, 3>>],
     [number |-> 30, symbol |-> <<"Z","n">>,
      name |-> <<"Z","i","n","c">>,
      hebrewName |-> <<"alef","bet","tsadi">>,
      atomicMass |-> <<"6","5",".","3","8">>,
      shells |-> <<2, 2>>],
     [number |-> 43, symbol |-> <<"T","c">>,
      name |-> <<"T","e","c","h","n","e","t","i","u","m">>,
      hebrewName |-> <<"tet","kaf","nun","tsadi","yod","vav","mem">>,
      atomicMass |-> <<"(","9","8",")">>,
      shells |-> <<2, 2, 1>>] >>

ElementSet == {elements[i] : i \in 1..Len(elements)}

----------------------------------------------------------------------------
(* Nucleus: particle placement (App.tsx:68-88) *)

\* The loop of the particles memo: pushes one particle per index i while
\* i < total.  A particle's position is fixed by phi = acos(-1 + 2i/total)
\* and theta = sqrt(total*pi)*phi; it is kept as the exact value of cos(phi)
\* together with total.
RECURSIVE NucleusLoop(_, _, _, _)
NucleusLoop(i, total, protons, pts) ==
  IF NumLess(Num(i), total)
    THEN NucleusLoop(i + 1, total, protons,
           Append(pts, [pos |-> [cosPhi |-> Rat(2 * i * total.den - total.num, total.num),
                                 total  |-> total.num],
                        isProton |-> NumLess(Num(i), protons)]))
    ELSE pts

\* A placement whose loop starts at index 1 instead of 0.
NucleusParticles_FromOne(protons, neutrons) ==
  NucleusLoop(1, NumAdd(protons, neutrons), protons, <<>>)

NucleusParticles(protons, neutrons) ==
  NucleusLoop(0, NumAdd(protons, neutrons), protons, <<>>)

\* A mounted Nucleus: its props and its memoised particles.
Nucleus(protons, neutrons) ==
  [protons |-> protons, neutrons |-> neutrons,
   particles |-> NucleusParticles(protons, neutrons)]

\* No Nucleus is mounted (the 2D view).
NoNucleus == [protons |-> Num(0), neutrons |-> Num(0), particles |-> <<>>]

\* useMemo(..., [protons, neutrons]) of a Nucleus that stays mounted: the
\* particles are computed again only when a dependency changed.
NucleusRerender(old, protons, neutrons) ==
  IF old.protons = protons /\ old.neutrons = neutrons
    THEN old
    ELSE Nucleus(protons, neutrons)

----------------------------------------------------------------------------
(* Electron: the per-frame callback (App.tsx:30-41) *)

\* A coordinate is amp * f(arg) for f in {cos, sin}, kept exactly: arg is
\* the representative of the angle (in turns) on which f is one-to-one, so
\* two coordinates of one electron are equal as records exactly when they
\* are equal as real numbers.  Every zero coordinate is the record Zero.
Zero == [amp |-> Rat(0, 1), fn |-> "zero", arg |-> Rat(0, 1)]

\* amp * Math.cos(t): cos is one-to-one on [0, 1/2] turn; zero at 1/4.
ScaledCos(amp, t) ==
  LET u   == RatFrac(t)
      arg == IF RatLess(Rat(1, 2), u) THEN RatSub(Rat(1, 1), u) ELSE u
  IN  IF arg = Rat(1, 4) THEN Zero ELSE [amp |-> amp, fn |-> "cos", arg |-> arg]

\* amp * Math.sin(t): sin is one-to-one on [-1/4, 1/4] turn; zero at 0.
ScaledSin(amp, t) ==
  LET u   == RatFrac(t)
      arg == IF RatLess(Rat(3, 4), u) THEN RatSub(u, Rat(1, 1))
             ELSE IF RatLess(Rat(1, 4), u) THEN RatSub(Rat(1, 2), u)
             ELSE u
  IN  IF arg = Rat(0, 1) THEN Zero ELSE [amp |-> amp, fn |-> "sin", arg |-> arg]

\* The position of a group that no frame has written yet.
Origin == [x |-> Zero, y |-> Zero, z |-> Zero]

\* Factor of the vertical bob, 0.2 (App.tsx:39).
BobFactor == Rat(2, 10)

\* t = state.clock.getElapsedTime() * speed + offset, in turns: the clock
\* reads elapsed ticks of pi/TicksPerPi seconds, speed is in radians per
\* second and offset is kept in turns.
FrameAngle(elapsed, speed, offset) ==
  RatAdd(RatMul(Rat(elapsed, 2 * TicksPerPi), speed), offset)

\* The position the callback writes (App.tsx:36-39).
ElectronPosition(radius, speed, offset, elapsed) ==
  LET t == FrameAngle(elapsed, speed, offset)
  IN  [x |-> ScaledCos(radius, t),
       z |-> ScaledSin(radius, t),
       y |-> ScaledSin(RatMul(radius, BobFactor), RatMul(t, Rat(1, 2)))]

\* A callback that writes the position whether or not isPaused is set.
ElectronFrame_IgnoresPause(e, paused, elapsed) ==
  [e EXCEPT !.position = ElectronPosition(e.radius, e.speed, e.offset, elapsed)]

\* A callback that reads the time since the last frame (one tick) where
\* the code reads the total elapsed time.
ElectronFrame_UsesDelta(e, paused, elapsed) ==
  IF ~paused
    THEN [e EXCEPT !.position = ElectronPosition(e.radius, e.speed, e.offset, 1)]
    ELSE e

\* useFrame callback of one mounted Electron e (its ref is set), run with
\* the isPaused prop of its last render and the clock reading elapsed.
ElectronFrame(e, paused, elapsed) ==
  IF ~paused
    THEN [e EXCEPT !.position =
            ElectronPosition(e.radius, e.speed, e.offset, elapsed)]
    ELSE e

----------------------------------------------------------------------------
(* AtomModel: the scene of one element (App.tsx:113-146) *)

\* Orbit spacing 1.2 (App.tsx:121) and speed numerator 2 (App.tsx:135).
UnitSpacing == Rat(12, 10)
BaseSpeed == Rat(2, 1)

\* The outcomes of the Math.random() calls of one render of an atom of n
\* shells (App.tsx:122-126), one rotation triple per shell.  The draws are
\* sampled: two outcomes per render, which differ in every shell.
RandomRotations(n) ==
  { [s \in 1..n |-> <<0, 0, 0>>], [s \in 1..n |-> <<s, s + 1, s + 2>>] }

AtomProtons(element) == Num(element.number)
AtomNeutrons(element) ==
  NumSub(MathRound(ParseFloat(element.atomicMass)), AtomProtons(element))

\* The Electron slots of an element: <<shellIndex, eIndex>>, both 0-based,
\* the keys under which the reconciler keeps an Electron across renders.
Slots(element) ==
  UNION { { <<s, e>> : e \in 0..(element.shells[s + 1] - 1) } :
          s \in 0..(Len(element.shells) - 1) }

\* The props AtomModel gives the Electron of slot <<s, e>> (App.tsx:121,
\* 134-136); the offset (eIndex / count) * 2*pi is kept in turns.
ElectronRadius(s) == RatMul(Rat(s + 1, 1), UnitSpacing)
ElectronSpeed(s) == RatMul(Rat(1, s + 1), BaseSpeed)
\* An offset that spreads the electrons of a shell over count + 1 places.
ElectronOffset_OnePlaceMore(e, count) == Rat(e, count + 1)

ElectronOffset(e, count) == Rat(e, count)

NoElectrons == [slot \in {} |-> Origin]

\* A render that mounts every Electron anew, keeping no position.
RenderElectrons_Remounts(element, old) ==
  [slot \in Slots(element) |->
     [radius   |-> ElectronRadius(slot[1]),
      speed    |-> ElectronSpeed(slot[1]),
      offset   |-> ElectronOffset(slot[2], element.shells[slot[1] + 1]),
      position |-> Origin]]

\* The Electrons after AtomModel renders element over the mounted ones in
\* old: every slot gets the props of this render; an Electron kept under
\* its key keeps the position last written to its group, a newly mounted
\* one starts at the origin.
RenderElectrons(element, old) ==
  [slot \in Slots(element) |->
     [radius   |-> ElectronRadius(slot[1]),
      speed    |-> ElectronSpeed(slot[1]),
      offset   |-> ElectronOffset(slot[2], element.shells[slot[1] + 1]),
      position |-> IF slot \in DOMAIN old THEN old[slot].position ELSE Origin]]

----------------------------------------------------------------------------
(* App: view state and handlers (App.tsx:181-207 and the onClick /         *)
(* onChange handlers of its markup)                                        *)

VARIABLES
  selectedElement,   \* useState(elements[0])
  searchTerm,        \* useState("")
  viewMode,          \* useState('3d')
  showInfo,          \* useState(true)
  showList,          \* useState(true)
  background,        \* useState('space')
  isPaused,          \* useState(false)
  filteredElements,  \* useMemo over [searchTerm]
  elapsedTime,       \* clock of the mounted Canvas, in ticks
  nucleus,           \* the mounted Nucleus: props and memoised particles
  rotation,          \* rotation prop of the Orbit of each shell
  electrons          \* the mounted Electrons, by slot

viewState ==
  <<selectedElement, searchTerm, viewMode, showInfo, showList, background, isPaused>>
scene == <<elapsedTime, nucleus, rotation, electrons>>
vars == <<viewState, filteredElements, scene>>

\* A filter that compares the names with the term as typed, not lower-cased.
ElementMatches_TermAsTyped(e, term) ==
  \/ Includes(e.hebrewName, term)
  \/ Includes(ToLowerCase(e.name), term)
  \/ Includes(ToLowerCase(e.symbol), term)
  \/ Includes(NumberToString(e.number), term)

\* The filter of the bottom strip (App.tsx:190-197).
ElementMatches(e, term) ==
  \/ Includes(e.hebrewName, term)
  \/ Includes(ToLowerCase(e.name), ToLowerCase(term))
  \/ Includes(ToLowerCase(e.symbol), ToLowerCase(term))
  \/ Includes(NumberToString(e.number), term)

\* A filter that matches the atomic number only when it equals the term.
FilterElements_NumberEquals(list, term) ==
  SelectSeq(list, LAMBDA e : \/ Includes(e.hebrewName, term)
                             \/ Includes(ToLowerCase(e.name), ToLowerCase(term))
                             \/ Includes(ToLowerCase(e.symbol), ToLowerCase(term))
                             \/ NumberToString(e.number) = term)

FilterElements(list, term) == SelectSeq(list, LAMBDA e : ElementMatches(e, term))

\* The texts typed into the search box in Spec.
SearchTerms == { <<>>, <<"1">>, <<"h">> }

\* The background buttons (App.tsx:368-388).
BackgroundButtons == {"space", "dark", "gradient"}

\* A selection that starts at the second record.
InitialElement_Second == elements[2]

\* useState<ElementData>(elements[0]) (App.tsx:182).
InitialElement == elements[1]

Init ==
  /\ selectedElement = InitialElement
  /\ searchTerm = <<>>
  /\ viewMode = "3d"
  /\ showInfo = TRUE
  /\ showList = TRUE
  /\ background = "space"
  /\ isPaused = FALSE
  /\ filteredElements = FilterElements(elements, <<>>)
  /\ elapsedTime = 0
  /\ nucleus = Nucleus(AtomProtons(InitialElement), AtomNeutrons(InitialElement))
  /\ electrons = RenderElectrons(InitialElement, NoElectrons)
  /\ rotation \in RandomRotations(Len(InitialElement.shells))

\* The scene after App re-renders with element selected and view mode mode:
\* in 3D, AtomModel runs again (fresh Math.random rotations, Electrons
\* reconciled by key, Nucleus memo on [protons, neutrons]); a Canvas that
\* mounts starts a new clock.  In 2D nothing of the scene is mounted.
Render(element, mode) ==
  IF mode = "3d"
    THEN /\ electrons' = RenderElectrons(element,
                           IF viewMode = "3d" THEN electrons ELSE NoElectrons)
         /\ nucleus' = IF viewMode = "3d"
                         THEN NucleusRerender(nucleus, AtomProtons(element),
                                              AtomNeutrons(element))
                         ELSE Nucleus(AtomProtons(element), AtomNeutrons(element))
         /\ elapsedTime' = IF viewMode = "3d" THEN elapsedTime ELSE 0
         /\ rotation' \in RandomRotations(Len(element.shells))
    ELSE /\ rotation' = <<>>
         /\ electrons' = NoElectrons
         /\ nucleus' = NoNucleus
         /\ elapsedTime' = 0

\* A search box that also selects the first element that matches.
SetSearchTerm_SelectsFirstMatch(term) ==
  LET found == FilterElements(elements, term)
      first == IF found = <<>> THEN selectedElement ELSE found[1]
  IN  /\ showInfo
      /\ term # searchTerm
      /\ searchTerm' = term
      /\ filteredElements' = found
      /\ selectedElement' = first
      /\ UNCHANGED <<viewMode, showInfo, showList, background, isPaused>>
      /\ Render(first, viewMode)

\* onChange of the search box, which is inside the info panel (App.tsx:247).
SetSearchTerm(term) ==
  /\ showInfo
  /\ term # searchTerm
  /\ searchTerm' = term
  /\ filteredElements' = FilterElements(elements, term)
  /\ UNCHANGED <<selectedElement, viewMode, showInfo, showList, background, isPaused>>
  /\ Render(selectedElement, viewMode)

\* setSelectedElement(element); setting the state it already has renders
\* nothing.
SetSelectedElement(element) ==
  IF element = selectedElement
    THEN UNCHANGED vars
    ELSE /\ selectedElement' = element
         /\ UNCHANGED <<searchTerm, viewMode, showInfo, showList, background,
                        isPaused, filteredElements>>
         /\ Render(element, viewMode)

\* Click on a cell of the 2D grid, which lists the whole dataset (App.tsx:453-456).
SelectFromGrid(i) ==
  /\ viewMode = "2d"
  /\ SetSelectedElement(elements[i])

\* Click on a button of the bottom strip, which lists filteredElements
\* (App.tsx:493-498).
SelectFromStrip(i) ==
  /\ showList
  /\ i \in 1..Len(filteredElements)
  /\ SetSelectedElement(filteredElements[i])

\* The 3D / 2D buttons (App.tsx:352, 359).
SetViewMode(mode) ==
  IF mode = viewMode
    THEN UNCHANGED vars
    ELSE /\ viewMode' = mode
         /\ UNCHANGED <<selectedElement, searchTerm, showInfo, showList, background,
                        isPaused, filteredElements>>
         /\ Render(selectedElement, mode)

\* setShowInfo(b): the close button of the panel (App.tsx:233) and the
\* floating button shown while it is closed (App.tsx:336-338).
SetShowInfo(b) ==
  /\ showInfo # b
  /\ showInfo' = b
  /\ UNCHANGED <<selectedElement, searchTerm, viewMode, showList, background,
                 isPaused, filteredElements>>
  /\ Render(selectedElement, viewMode)

\* setShowList(b): the close button of the strip (App.tsx:517) and the
\* floating button shown while it is closed (App.tsx:527-529).
SetShowList(b) ==
  /\ showList # b
  /\ showList' = b
  /\ UNCHANGED <<selectedElement, searchTerm, viewMode, showInfo, background,
                 isPaused, filteredElements>>
  /\ Render(selectedElement, viewMode)

\* The background buttons (App.tsx:369, 376, 383).
SetBackground(b) ==
  IF b = background
    THEN UNCHANGED vars
    ELSE /\ background' = b
         /\ UNCHANGED <<selectedElement, searchTerm, viewMode, showInfo, showList,
                        isPaused, filteredElements>>
         /\ Render(selectedElement, viewMode)

\* The pause button: setIsPaused(!isPaused) (App.tsx:393).
TogglePause ==
  /\ isPaused' = ~isPaused
  /\ UNCHANGED <<selectedElement, searchTerm, viewMode, showInfo, showList,
                 background, filteredElements>>
  /\ Render(selectedElement, viewMode)

\* toggleFullInteractive (App.tsx:199-202); both setters are batched into
\* one render, and none happens when both flags are already false.
toggleFullInteractive ==
  IF ~showInfo /\ ~showList
    THEN UNCHANGED vars
    ELSE /\ showInfo' = FALSE
         /\ showList' = FALSE
         /\ UNCHANGED <<selectedElement, searchTerm, viewMode, background,
                        isPaused, filteredElements>>
         /\ Render(selectedElement, viewMode)

\* A reset that restores the info panel only.
resetLayout_InfoOnly ==
  IF showInfo
    THEN UNCHANGED vars
    ELSE /\ showInfo' = TRUE
         /\ UNCHANGED <<selectedElement, searchTerm, viewMode, showList, background,
                        isPaused, filteredElements>>
         /\ Render(selectedElement, viewMode)

\* resetLayout (App.tsx:204-207).
resetLayout ==
  IF showInfo /\ showList
    THEN UNCHANGED vars
    ELSE /\ showInfo' = TRUE
         /\ showList' = TRUE
         /\ UNCHANGED <<selectedElement, searchTerm, viewMode, background,
                        isPaused, filteredElements>>
         /\ Render(selectedElement, viewMode)

\* A frame whose callback also clears the pause flag.
Frame_ClearsPause ==
  /\ viewMode = "3d"
  /\ elapsedTime < MaxTime
  /\ \E t \in (elapsedTime + 1)..MaxTime :
       /\ elapsedTime' = t
       /\ electrons' = [slot \in DOMAIN electrons |->
                          ElectronFrame(electrons[slot], FALSE, t)]
  /\ isPaused' = FALSE
  /\ UNCHANGED <<selectedElement, searchTerm, viewMode, showInfo, showList,
                 background, filteredElements, nucleus, rotation>>

\* One rendered frame of the mounted Canvas: the clock has moved forward
\* and the useFrame callback of every mounted Electron runs (App.tsx:34-41).
Frame ==
  /\ viewMode = "3d"
  /\ elapsedTime < MaxTime
  /\ \E t \in (elapsedTime + 1)..MaxTime :
       /\ elapsedTime' = t
       /\ electrons' = [slot \in DOMAIN electrons |->
                          ElectronFrame(electrons[slot], isPaused, t)]
  /\ UNCHANGED <<viewState, filteredElements, nucleus, rotation>>

Next ==
  \/ \E term \in SearchTerms : SetSearchTerm(term)
  \/ \E i \in 1..Len(elements) : SelectFromGrid(i)
  \/ \E i \in 1..Len(elements) : SelectFromStrip(i)
  \/ \E mode \in {"3d", "2d"} : SetViewMode(mode)
  \/ SetShowInfo(~showInfo)
  \/ SetShowList(~showList)
  \/ \E b \in BackgroundButtons : SetBackground(b)
  \/ TogglePause
  \/ toggleFullInteractive
  \/ resetLayout
  \/ Frame

Spec == Init /\ [][Next]_vars

\* A Nucleus rendered on its own with any small proton and neutron counts.
NucleusRender(p, n) ==
  /\ nucleus' = Nucleus(Num(p), Num(n))
  /\ UNCHANGED <<viewState, filteredElements, elapsedTime, rotation, electrons>>

NextNucleus == \E p \in 0..MaxParticles, n \in 0..MaxParticles : NucleusRender(p, n)

SpecNucleus == Init /\ [][NextNucleus]_vars

\* The characters typed into the search box in SpecFilter.
FilterAlphabet == {"h", "H", "l", "L", "i", "3", "1", "0", "lamed"}

\* Typing: one character is appended to the search text, or its last one
\* is deleted.
TypeCharacter(c) ==
  /\ Len(searchTerm) < MaxLen
  /\ SetSearchTerm(Append(searchTerm, c))

DeleteCharacter ==
  /\ searchTerm # <<>>
  /\ SetSearchTerm(SubSeq(searchTerm, 1, Len(searchTerm) - 1))

NextFilter ==
  \/ \E c \in FilterAlphabet : TypeCharacter(c)
  \/ DeleteCharacter

SpecFilter == Init /\ [][NextFilter]_vars

\* AtomModel rendered with an element whose shell list is shells, over the
\* scene already mounted.
AtomRender(shells) ==
  LET element == [selectedElement EXCEPT !.shells = shells]
  IN  /\ selectedElement' = element
      /\ UNCHANGED <<searchTerm, viewMode, showInfo, showList, background,
                     isPaused, filteredElements>>
      /\ Render(element, viewMode)

\* The shell lists of SpecAtom grow and shrink by one shell of any small
\* electron count (0 included: a shell that mounts no Electron).
AddShell(count) ==
  /\ Len(selectedElement.shells) < MaxShells
  /\ AtomRender(Append(selectedElement.shells, count))

RemoveShell ==
  /\ selectedElement.shells # <<>>
  /\ AtomRender(SubSeq(selectedElement.shells, 1, Len(selectedElement.shells) - 1))

NextAtom ==
  \/ \E count \in 0..MaxCount : AddShell(count)
  \/ RemoveShell

SpecAtom == Init /\ [][NextAtom]_vars

----------------------------------------------------------------------------
(* C1: while isPaused is set, a frame leaves the position of every mounted *)
(* Electron as it was (and mounts or unmounts none), however often frames  *)
(* run.                                                                    *)
C1_PausedFrameFreezes ==
  [][(Frame /\ isPaused) =>
       /\ DOMAIN electrons' = DOMAIN electrons
       /\ \A slot \in DOMAIN electrons :
            electrons'[slot].position = electrons[slot].position]_vars

\* Paused in 3D with the clock past the tick at which an Electron of phase
\* offset 0 was last written: a frame has run while paused and left it.
C1_Witness ==
  /\ isPaused
  /\ viewMode = "3d"
  /\ \E slot \in DOMAIN electrons :
       LET e == electrons[slot]
       IN  /\ slot[2] = 0
           /\ \E t \in 1..(elapsedTime - 1) :
                e.position = ElectronPosition(e.radius, e.speed, e.offset, t)
           /\ e.position # ElectronPosition(e.radius, e.speed, e.offset, elapsedTime)

----------------------------------------------------------------------------
(* C2: between two changes of selectedElement, with the atom displayed, no *)
(* frame and no other view-state event changes the rotation of any shell.  *)
C2_TiltStaticBetweenSelections ==
  [][(selectedElement' = selectedElement /\ viewMode = "3d" /\ viewMode' = "3d")
       => rotation' = rotation]_vars

----------------------------------------------------------------------------
(* C3: when the atomicMass of the selected element does not parse, the     *)
(* displayed nucleus has exactly `number` particles, all of them protons.  *)
C3_UnparseableMassAllProtons ==
  (viewMode = "3d" /\ ParseFloat(selectedElement.atomicMass).nan) =>
    /\ Len(nucleus.particles) = selectedElement.number
    /\ \A i \in 1..Len(nucleus.particles) : nucleus.particles[i].isProton

----------------------------------------------------------------------------
(* C4: for non-negative integers protons and neutrons the placement has    *)
(* exactly protons + neutrons particles, and the particle at (0-based)     *)
(* index i is a proton exactly when i < protons; for a total of 0 it is    *)
(* the empty sequence.                                                     *)
C4_NucleusPlacement ==
  LET p == nucleus.protons
      n == nucleus.neutrons
  IN  (~p.nan /\ ~n.nan /\ p.den = 1 /\ n.den = 1 /\ p.num >= 0 /\ n.num >= 0) =>
        /\ Len(nucleus.particles) = p.num + n.num
        /\ \A i \in 1..Len(nucleus.particles) :
             nucleus.particles[i].isProton <=> (i - 1 < p.num)
        /\ (p.num + n.num = 0 => nucleus.particles = <<>>)

\* A nucleus of 2 protons and 3 neutrons has been placed.
C4_Witness ==
  /\ nucleus.protons = Num(2)
  /\ nucleus.neutrons = Num(3)
  /\ Len(nucleus.particles) = 5
  /\ nucleus.particles[2].isProton
  /\ ~nucleus.particles[3].isProton

\* The empty nucleus (no protons, no neutrons) has been placed.
C4_EmptyReached ==
  /\ viewMode = "3d"
  /\ nucleus.protons = Num(0)
  /\ nucleus.neutrons = Num(0)
  /\ nucleus.particles = <<>>

----------------------------------------------------------------------------
(* C5: a change of searchTerm leaves selectedElement as it was, also when  *)
(* the selected element no longer matches; a click in the 2D grid or in    *)
(* the bottom strip sets selectedElement to the record clicked and changes *)
(* no other view-state field.                                              *)
C5_FilterKeepsSelection ==
  [][/\ searchTerm' # searchTerm => selectedElement' = selectedElement
     /\ \A i \in 1..Len(elements) :
          SelectFromGrid(i) =>
            /\ selectedElement' = elements[i]
            /\ UNCHANGED <<searchTerm, viewMode, showInfo, showList, background, isPaused>>
     /\ \A i \in 1..Len(elements) :
          SelectFromStrip(i) =>
            /\ selectedElement' = filteredElements[i]
            /\ UNCHANGED <<searchTerm, viewMode, showInfo, showList, background, isPaused>>
    ]_vars

\* An element other than the initial one has been selected, and the search
\* text typed does not match it.
C5_Witness ==
  /\ selectedElement # InitialElement
  /\ searchTerm # <<>>
  /\ \A i \in 1..Len(filteredElements) : filteredElements[i] # selectedElement

----------------------------------------------------------------------------
(* C6: filteredElements is exactly the dataset records, in dataset order,  *)
(* whose Hebrew name contains the term, or whose lower-cased English name  *)
(* or symbol contains the lower-cased term, or whose atomic number in      *)
(* decimal contains the term; searching "3" returns the records numbered   *)
(* 3, 13 and 30.                                                           *)
C6_Matches(e) ==
  \/ Includes(e.hebrewName, searchTerm)
  \/ Includes(ToLowerCase(e.name), ToLowerCase(searchTerm))
  \/ Includes(ToLowerCase(e.symbol), ToLowerCase(searchTerm))
  \/ Includes(NumberToString(e.number), searchTerm)

C6_Position(e) == CHOOSE k \in 1..Len(elements) : elements[k] = e

C6_FilterExact ==
  /\ \A i \in 1..Len(filteredElements) :
       filteredElements[i] \in ElementSet /\ C6_Matches(filteredElements[i])
  /\ \A e \in ElementSet :
       C6_Matches(e) => \E i \in 1..Len(filteredElements) : filteredElements[i] = e
  /\ \A i, j \in 1..Len(filteredElements) :
       i < j => C6_Position(filteredElements[i]) < C6_Position(filteredElements[j])
  /\ searchTerm = <<"3">> =>
       \A e \in ElementSet :
         e.number \in {3, 13, 30} =>
           \E i \in 1..Len(filteredElements) : filteredElements[i] = e

\* "3" has been typed and the strip shows the records numbered 3, 13, 30.
C6_Witness ==
  /\ searchTerm = <<"3">>
  /\ {3, 13, 30} \subseteq {filteredElements[i].number : i \in 1..Len(filteredElements)}

----------------------------------------------------------------------------
(* C7: two search terms that differ only in letter case give the same      *)
(* result, filtering a result again with the same term returns it, and the *)
(* empty term returns the whole dataset.                                   *)
RECURSIVE C7_CaseVariants(_)
C7_CaseVariants(t) ==
  IF t = <<>> THEN { <<>> }
  ELSE LET rest == C7_CaseVariants(SubSeq(t, 2, Len(t)))
           same == {c \in FilterAlphabet : LowerChar(c) = LowerChar(t[1])} \cup {t[1]}
       IN  { <<c>> \o r : c \in same, r \in rest }

C7_FilterCaseAndIdempotent ==
  /\ \A t \in C7_CaseVariants(searchTerm) :
       FilterElements(elements, t) = filteredElements
  /\ FilterElements(filteredElements, searchTerm) = filteredElements
  /\ searchTerm = <<>> => filteredElements = elements

\* "H" has been typed: it matches some records and not all, and "h" is a
\* different term of the same letters.
C7_Witness ==
  /\ searchTerm = <<"H">>
  /\ <<"h">> \in C7_CaseVariants(searchTerm)
  /\ filteredElements # <<>>
  /\ filteredElements # elements

----------------------------------------------------------------------------
(* C8: toggleFullInteractive sets showInfo and showList to false and       *)
(* resetLayout sets both to true, each leaving selectedElement,            *)
(* searchTerm, viewMode, background and isPaused as they were; the single  *)
(* panel buttons change one flag and leave the other.                      *)
C8_LayoutActions ==
  [][/\ toggleFullInteractive =>
          /\ ~showInfo' /\ ~showList'
          /\ UNCHANGED <<selectedElement, searchTerm, viewMode, background, isPaused>>
     /\ resetLayout =>
          /\ showInfo' /\ showList'
          /\ UNCHANGED <<selectedElement, searchTerm, viewMode, background, isPaused>>
     /\ SetShowInfo(~showInfo) => showList' = showList
     /\ SetShowList(~showList) => showInfo' = showInfo
    ]_vars

\* Both panels are hidden in the 2D view, with the other view state off its
\* defaults: the state from which resetLayout restores both.
C8_Witness ==
  /\ ~showInfo /\ ~showList
  /\ viewMode = "2d"
  /\ isPaused
  /\ background # "space"
  /\ searchTerm # <<>>
  /\ selectedElement # InitialElement

\* Every combination of showInfo, showList and viewMode occurs.
C8_Combination(info, list, mode) ==
  showInfo = info /\ showList = list /\ viewMode = mode

----------------------------------------------------------------------------
(* C9: selectedElement is the first record of the dataset initially, and a *)
(* record of the dataset after any sequence of user actions.               *)
C9_SelectedInDataset ==
  /\ selectedElement = elements[1]
  /\ [](selectedElement \in ElementSet)

\* The last record of the dataset has been selected.
C9_Witness ==
  /\ selectedElement = elements[Len(elements)]
  /\ selectedElement # elements[1]

----------------------------------------------------------------------------
(* C10: a frame, paused or not, leaves selectedElement, searchTerm,        *)
(* viewMode, showInfo, showList, background and isPaused as they were; of  *)
(* the scene it changes only the positions of the mounted Electrons.       *)
C10_FrameKeepsViewState ==
  [][Frame =>
       /\ UNCHANGED <<selectedElement, searchTerm, viewMode, showInfo, showList,
                      background, isPaused>>
       /\ UNCHANGED <<filteredElements, nucleus, rotation>>
       /\ DOMAIN electrons' = DOMAIN electrons
       /\ \A slot \in DOMAIN electrons :
            /\ electrons'[slot].radius = electrons[slot].radius
            /\ electrons'[slot].speed = electrons[slot].speed
            /\ electrons'[slot].offset = electrons[slot].offset
    ]_vars

\* A frame has just run unpaused, with the view state off its defaults:
\* every mounted Electron is where the callback puts it at this clock.
C10_Witness ==
  /\ viewMode = "3d"
  /\ ~isPaused
  /\ elapsedTime > 0
  /\ background # "space"
  /\ ~showInfo
  /\ selectedElement # InitialElement
  /\ \A slot \in DOMAIN electrons :
       LET e == electrons[slot]
       IN  e.position = ElectronPosition(e.radius, e.speed, e.offset, elapsedTime)

----------------------------------------------------------------------------
(* C11: for the shell at 0-based index s with count electrons, exactly     *)
(* count Electrons are mounted, each with radius (s+1) * UnitSpacing and   *)
(* speed BaseSpeed / (s+1); Electron e has offset e/count of a turn, so    *)
(* the offsets of a shell are pairwise distinct and cut the turn into      *)
(* count equal arcs.                                                       *)
C11_ShellSlots(s) == {slot \in DOMAIN electrons : slot[1] = s}

C11_ShellElectrons ==
  viewMode = "3d" =>
    /\ \A slot \in DOMAIN electrons : slot[1] \in 0..(Len(selectedElement.shells) - 1)
    /\ \A s \in 0..(Len(selectedElement.shells) - 1) :
         LET count == selectedElement.shells[s + 1]
             here  == C11_ShellSlots(s)
         IN  /\ Cardinality(here) = count
             /\ \A slot \in here :
                  /\ slot[2] \in 0..(count - 1)
                  /\ RatMul(electrons[slot].radius, Rat(1, s + 1)) = UnitSpacing
                  /\ RatMul(electrons[slot].speed, Rat(s + 1, 1)) = BaseSpeed
                  /\ RatMul(electrons[slot].offset, Rat(count, 1)) = Rat(slot[2], 1)
                  /\ ~RatLess(electrons[slot].offset, Rat(0, 1))
                  /\ RatLess(electrons[slot].offset, Rat(1, 1))
                  \* the arc that starts at this offset ends, 1/count of a
                  \* turn later, at the offset of an Electron of the shell
                  /\ \E next \in here :
                       electrons[next].offset =
                         RatFrac(RatAdd(electrons[slot].offset, Rat(1, count)))
             /\ \A a, b \in here :
                  a # b => electrons[a].offset # electrons[b].offset

\* An atom with a shell of three Electrons at index 1 and a shell of two at
\* index 2 is mounted.
C11_Witness ==
  /\ viewMode = "3d"
  /\ Len(selectedElement.shells) = 3
  /\ selectedElement.shells[2] = 3
  /\ selectedElement.shells[3] = 2
  /\ {electrons[slot].offset : slot \in C11_ShellSlots(1)}
       = {Rat(0, 1), Rat(1, 3), Rat(2, 3)}
  /\ {electrons[slot].offset : slot \in C11_ShellSlots(2)} = {Rat(0, 1), Rat(1, 2)}

----------------------------------------------------------------------------
(* C12: positions are written by unpaused frames only.  A step that is not *)
(* an unpaused frame (in particular the selection of another element while *)
(* isPaused is set) leaves an Electron that stays mounted where it was,    *)
(* computed from the radius and offset it had then, and leaves a newly     *)
(* mounted Electron at the origin; an unpaused frame puts every mounted    *)
(* Electron on the orbit of its own radius, speed and offset.              *)
C12_UnpausedFrame == Frame /\ ~isPaused

C12_PositionsWrittenByUnpausedFramesOnly ==
  [][/\ ~C12_UnpausedFrame =>
          \A slot \in DOMAIN electrons' :
            electrons'[slot].position =
              IF viewMode = "3d" /\ slot \in DOMAIN electrons
                THEN electrons[slot].position
                ELSE Origin
     /\ C12_UnpausedFrame =>
          \A slot \in DOMAIN electrons' :
            electrons'[slot].position =
              ElectronPosition(electrons'[slot].radius, electrons'[slot].speed,
                               electrons'[slot].offset, elapsedTime')
    ]_vars

\* The position of Electron e is the one the callback writes for e's own
\* radius, speed and offset at some tick of the clock so far.
C12_OnOwnOrbit(e) ==
  \E t \in 0..elapsedTime :
    e.position = ElectronPosition(e.radius, e.speed, e.offset, t)

\* Paused in 3D after another element was selected: one Electron is still
\* at the origin although the clock has advanced, and another is off the
\* origin at a position that its own offset gives at no tick, the one it
\* had under the element shown before.
C12_Witness ==
  /\ isPaused
  /\ viewMode = "3d"
  /\ elapsedTime > 0
  /\ \E slot \in DOMAIN electrons : electrons[slot].position = Origin
  /\ \E slot \in DOMAIN electrons :
       /\ electrons[slot].position # Origin
       /\ ~C12_OnOwnOrbit(electrons[slot])

----------------------------------------------------------------------------
(* C13: pausing does not stop the render clock.  A frame run while paused  *)
(* moves the clock forward, pausing and resuming leave its reading, and an *)
(* unpaused frame writes every position from the clock's total elapsed     *)
(* time and the Electron's radius, speed and offset alone; so the first    *)
(* frame after resuming writes what it would have written without the      *)
(* pause, whatever the frozen position and however long the pause.         *)
C13_ClockRunsThroughPause ==
  [][/\ (Frame /\ isPaused) => elapsedTime' > elapsedTime
     /\ TogglePause => elapsedTime' = elapsedTime
     /\ (Frame /\ ~isPaused) =>
          \A slot \in DOMAIN electrons' :
            LET e == electrons'[slot]
            IN  /\ e.position = ElectronPosition(e.radius, e.speed, e.offset, elapsedTime')
                /\ e.position.x = ScaledCos(e.radius, FrameAngle(elapsedTime', e.speed, e.offset))
    ]_vars

\* Resumed, and the next frame can run: an Electron is frozen off the
\* origin where an earlier tick put it, and the clock has moved on since,
\* through frames that ran while paused.
C13_Witness ==
  /\ ~isPaused
  /\ viewMode = "3d"
  /\ elapsedTime < MaxTime
  /\ \E slot \in DOMAIN electrons :
       LET e == electrons[slot]
       IN  /\ slot[2] = 0
           /\ e.position # Origin
           /\ \E t \in 1..(elapsedTime - 1) :
                e.position = ElectronPosition(e.radius, e.speed, e.offset, t)
           /\ e.position # ElectronPosition(e.radius, e.speed, e.offset, elapsedTime)

=============================================================================
